---- MODULE Spec2Model ----
(***************************************************************************)
(* Model of streamlit_app_supabase.py: the PCC result dashboard.           *)
(*                                                                         *)
(* One Streamlit session runs main() once per user interaction.  The       *)
(* state is the external table pcc_result (store) and whether it answers   *)
(* (reachable), the st.cache_data entry of load_data_from_supabase (cache, *)
(* held while cached), the session flags, the five sidebar multiselect     *)
(* values (sel), what the last run of main() computed and rendered (out),  *)
(* the outcome of the last call of the write interface (write), and a      *)
(* second browser session served by the same process (peer).               *)
(*                                                                         *)
(* Column names (the source's are Korean, TLA+ identifiers are ASCII):     *)
(*   round = 회차      subject = 시험과목   name  = 이름    sid = 학번     *)
(*   email = 이메일    dept    = 학과       grade = 학년    score = 총점   *)
(*   status = 합격여부 level   = 등급 / 등급(Lv.)                          *)
(*   binary = 합격여부_binary                                              *)
(* Values: "pass" = 합격, "fail" = 불합격, "none" = 없음.                  *)
(***************************************************************************)
EXTENDS Integers, Sequences, FiniteSets, TLC

VARIABLES store, reachable, cache, cached, authenticated, is_admin, sel, out,
          write, peer

vars ==
    <<store, reachable, cache, cached, authenticated, is_admin, sel, out,
      write, peer>>

(***************************************************************************)
(* Bounds of the model: the longest table each specification starts from.  *)
(***************************************************************************)
MaxFilterRecs == 2
MaxAggRecs == 2
MaxStudentRecs == 4
MaxRetakeRecs == 3
MaxCompareRecs == 3
MaxLevelRecs == 3
MaxAppRecs == 1
MaxStoreRecs == 2
MaxRecordId == 3

(***************************************************************************)
(* Missing values.  NULL is a missing string cell (None), NaN a missing    *)
(* numeric cell; NonNumeric is a 총점 cell holding text, which             *)
(* pd.to_numeric(errors='coerce') turns into NaN.  Scores are >= 0.        *)
(***************************************************************************)
NULL == "<NULL>"
NaN == 0 - 1
NonNumeric == 0 - 2

\* A row of the response that has no level key at all (the table has no
\* 등급 / 등급(Lv.) column when no row has the key).
Absent == "<absent>"

PASS == "pass"
FAIL == "fail"
NoLevel == "none"

\* The three 학과 values tabs 2, 3 and 8 keep (source lines 321-325).
CSE == "CSE"
ECE_CSE == "ECE-CSE-major"
ECE == "ECE"
CseDepartments == {CSE, ECE_CSE, ECE}

\* st.secrets["admin"]
AdminUsername == "admin"
AdminPassword == "secret"

(***************************************************************************)
(* Sequences and sets.                                                     *)
(***************************************************************************)
Range(s) == {s[i] : i \in DOMAIN s}

SeqsUpTo(S, n) == UNION {[1..k -> S] : k \in 0..n}

\* The rows of table t at the positions where mask is TRUE, in table order
\* (boolean indexing df[mask]).
RECURSIVE MaskSelect(_, _)
MaskSelect(t, mask) ==
    IF t = <<>> THEN <<>>
    ELSE LET rest == MaskSelect(Tail(t), Tail(mask))
         IN IF Head(mask) THEN <<Head(t)>> \o rest ELSE rest

RECURSIVE SumSeq(_)
SumSeq(s) == IF s = <<>> THEN 0 ELSE Head(s) + SumSeq(Tail(s))

\* A set as a sequence without repetition.
RECURSIVE SetToSeq(_)
SetToSeq(S) ==
    IF S = {} THEN <<>>
    ELSE LET x == CHOOSE y \in S : TRUE
         IN <<x>> \o SetToSeq(S \ {x})

(***************************************************************************)
(* Floating point results as exact fractions <<n, d>> in lowest terms,     *)
(* d > 0; <<0, 0>> is NaN and <<1, 0>>, <<-1, 0>> are +inf, -inf: the      *)
(* values numpy/pandas division produces for a zero divisor.               *)
(***************************************************************************)
Abs(x) == IF x < 0 THEN 0 - x ELSE x

Sign(x) == IF x > 0 THEN 1 ELSE IF x < 0 THEN 0 - 1 ELSE 0

RECURSIVE Gcd(_, _)
Gcd(a, b) == IF b = 0 THEN a ELSE Gcd(b, a % b)

FNaN == <<0, 0>>

Frac(n, d) ==
    LET g == Gcd(Abs(n), d)
    IN <<n \div g, d \div g>>

\* pandas Series division a / b on numbers: no exception, inf or NaN on b = 0.
FDiv(a, b) == IF b = 0 THEN <<Sign(a), 0>> ELSE Frac(a, b)

IsNaN(x) == x = FNaN

IsInf(x) == x[2] = 0 /\ x[1] # 0

IsFinite(x) == x[2] > 0

FTimes(x, k) == IF IsFinite(x) THEN Frac(x[1] * k, x[2]) ELSE x

FMinus(x, y) ==
    IF IsFinite(x) /\ IsFinite(y)
    THEN Frac(x[1] * y[2] - y[1] * x[2], x[2] * y[2])
    ELSE FNaN

FInt(n) == <<n, 1>>

FLeq(x, y) == x[1] * y[2] <= y[1] * x[2]

\* .round(k): the nearest multiple of 1/scale (scale = 10^k), ties to even.
FRound(x, scale) ==
    IF ~IsFinite(x) THEN x
    ELSE LET num == x[1] * scale
             q == num \div x[2]
             r == num % x[2]
             up == \/ 2 * r > x[2]
                   \/ 2 * r = x[2] /\ q % 2 = 1
         IN Frac(IF up THEN q + 1 ELSE q, scale)

(***************************************************************************)
(* load_data_from_supabase: the table as the store returns it, turned      *)
(* into the DataFrame df, or None.                                         *)
(***************************************************************************)
\* df['합격여부'].map({'합격': 1, '불합격': 0}): any other value maps to NaN.
StatusBinary(status) ==
    IF status = PASS THEN 1 ELSE IF status = FAIL THEN 0 ELSE NaN

\* df['학년'].astype(str)
GradeStr(grade) == ToString(grade)

\* pd.to_numeric(df['총점'], errors='coerce')
ToNumeric(score) == IF score = NonNumeric THEN NaN ELSE score

\* Variant of the load that leaves a missing level cell as it is.
FillLevel_NoFill(level) == level

\* df['등급(Lv.)'] = df['등급'], then .fillna('없음')
FillLevel(level) == IF level = NULL THEN NoLevel ELSE level

\* '등급' in df.columns / '등급(Lv.)' in df.columns: pd.DataFrame(list of
\* dicts) has a column when some row has the key, and NaN in the rows that
\* lack it.  The table has one level column, under either name (a table
\* with both names, where 등급 overwrites 등급(Lv.), is not represented).
HasLevelColumn(table) == \E i \in DOMAIN table : table[i].level # Absent

\* The level cell of a row: '없음' in every row when the column is created
\* by the load, else the cell with its missing value filled.
LevelCell(raw, has_column) ==
    IF ~has_column THEN NoLevel
    ELSE FillLevel(IF raw.level = Absent THEN NULL ELSE raw.level)

\* The id and no (번호) columns are read by no statistic and are dropped.
Preprocess(raw, has_column) ==
    [round |-> raw.round, subject |-> raw.subject, name |-> raw.name,
     sid |-> raw.sid, email |-> raw.email, dept |-> raw.dept,
     grade |-> GradeStr(raw.grade), score |-> ToNumeric(raw.score),
     status |-> raw.status, level |-> LevelCell(raw, has_column),
     binary |-> StatusBinary(raw.status)]

None == [ok |-> FALSE, df |-> <<>>]

\* The body of the function once select("*").execute() has answered with
\* the rows of table.
load_data_from_supabase(table) ==
    IF table = <<>> THEN None
    ELSE [ok |-> TRUE,
          df |-> [i \in DOMAIN table |->
                    Preprocess(table[i], HasLevelColumn(table))]]

(***************************************************************************)
(* The sidebar: the options and the default of each multiselect, and the   *)
(* filter main() applies with the selected values.                         *)
(***************************************************************************)
Unique(df, col) == {df[i][col] : i \in DOMAIN df}

FilterFields == {"departments", "grades", "pass_status", "levels", "subjects"}

Options(df) ==
    [departments |-> Unique(df, "dept"),
     grades |-> Unique(df, "grade"),
     pass_status |-> {PASS, FAIL},
     levels |-> Unique(df, "level"),
     subjects |-> Unique(df, "subject")]

\* Every multiselect has default = options.
Defaults(df) == Options(df)

\* Variant of FilterMask that leaves out the 등급(Lv.) condition.
FilterMask_IgnoresLevels(df, s) ==
    [i \in DOMAIN df |->
        /\ df[i].dept \in s.departments
        /\ df[i].grade \in s.grades
        /\ df[i].status \in s.pass_status
        /\ df[i].subject \in s.subjects]

FilterMask(df, s) ==
    [i \in DOMAIN df |->
        /\ df[i].dept \in s.departments
        /\ df[i].grade \in s.grades
        /\ df[i].status \in s.pass_status
        /\ df[i].level \in s.levels
        /\ df[i].subject \in s.subjects]

filtered_df(df, s) == MaskSelect(df, FilterMask(df, s))

(***************************************************************************)
(* pandas aggregation over a table (a sequence of rows).                   *)
(***************************************************************************)
Column(t, col) == [i \in DOMAIN t |-> t[i][col]]

\* The non-missing cells of a numeric column, in order.
RECURSIVE Valid(_)
Valid(c) ==
    IF c = <<>> THEN <<>>
    ELSE IF Head(c) = NaN THEN Valid(Tail(c)) ELSE <<Head(c)>> \o Valid(Tail(c))

\* 'count' on a string column: the cells that are not missing.
CountNotNull(t, col) == Cardinality({i \in DOMAIN t : t[i][col] # NULL})

\* 'sum' skips NaN; 'mean' is the mean of the non-missing cells, NaN if none.
AggSum(t, col) == SumSeq(Valid(Column(t, col)))

AggMean(t, col) ==
    LET v == Valid(Column(t, col))
    IN FDiv(SumSeq(v), Len(v))

RECURSIVE SeqMax(_)
SeqMax(s) ==
    IF Len(s) = 1 THEN Head(s)
    ELSE LET m == SeqMax(Tail(s)) IN IF Head(s) >= m THEN Head(s) ELSE m

RECURSIVE SeqMin(_)
SeqMin(s) ==
    IF Len(s) = 1 THEN Head(s)
    ELSE LET m == SeqMin(Tail(s)) IN IF Head(s) <= m THEN Head(s) ELSE m

\* 'max' / 'min' skip NaN; NaN when every cell is missing.
AggMax(t, col) ==
    LET v == Valid(Column(t, col)) IN IF v = <<>> THEN NaN ELSE SeqMax(v)

AggMin(t, col) ==
    LET v == Valid(Column(t, col)) IN IF v = <<>> THEN NaN ELSE SeqMin(v)

\* GroupBy 'first' / 'last': the first / last non-missing cell in row order.
AggFirst(t, col) ==
    LET v == Valid(Column(t, col)) IN IF v = <<>> THEN NaN ELSE v[1]

AggLast(t, col) ==
    LET v == Valid(Column(t, col)) IN IF v = <<>> THEN NaN ELSE v[Len(v)]

\* The key of a row under groupby(cols).
KeyOf(row, cols) == [j \in DOMAIN cols |-> row[cols[j]]]

NumericColumns == {"round", "score", "binary"}

IsMissing(row, col) ==
    IF col \in NumericColumns THEN row[col] = NaN ELSE row[col] = NULL

HasNull(row, cols) == \E j \in DOMAIN cols : IsMissing(row, cols[j])

\* groupby(cols) with the default dropna=True: the keys without a missing
\* component; rows with a missing key column belong to no group.
GroupKeys(t, cols) ==
    {KeyOf(t[i], cols) : i \in {j \in DOMAIN t : ~HasNull(t[j], cols)}}

GroupRows(t, cols, k) ==
    MaskSelect(t, [i \in DOMAIN t |-> KeyOf(t[i], cols) = k])

(***************************************************************************)
(* Tab 1: overall metrics and the per-department / per-subject tables.     *)
(***************************************************************************)
total_applicants(fd) == Len(fd)

total_passed(fd) == Cardinality({i \in DOMAIN fd : fd[i].status = PASS})

\* (total_passed / total_applicants * 100) if total_applicants > 0 else 0
total_pass_rate(fd) ==
    IF total_applicants(fd) > 0
    THEN FDiv(total_passed(fd) * 100, total_applicants(fd))
    ELSE FInt(0)

avg_score(fd) == AggMean(fd, "score")

\* One row of groupby(cols).agg({'이름': 'count', '합격여부_binary':
\* ['sum', 'mean'], '총점': 'mean'}).round(2), 합격률 then * 100, .round(1).
\* 응시자수 is the count of the 이름 cells that are not missing.  The text
\* form of 합격률 (astype(str) + '%') is not represented.
StatsRow(rows) ==
    [applicants |-> CountNotNull(rows, "name"),
     passed |-> AggSum(rows, "binary"),
     pass_rate |-> FRound(FTimes(FRound(AggMean(rows, "binary"), 100), 100), 10),
     avg_score |-> FRound(AggMean(rows, "score"), 100)]

GroupStats(t, cols) ==
    [k \in GroupKeys(t, cols) |-> StatsRow(GroupRows(t, cols, k))]

dept_stats(fd) == GroupStats(fd, <<"dept">>)

subject_stats(fd) == GroupStats(fd, <<"subject">>)

(***************************************************************************)
(* Tabs 2 and 3: the computer-science departments, per round and per grade.*)
(***************************************************************************)
cse_df(fd) == MaskSelect(fd, [i \in DOMAIN fd |-> fd[i].dept \in CseDepartments])

\* 불합격자수 = 총_응시자수 - 합격자수; 합격률 = (합격자수 / 총_응시자수 * 100).round(1)
RoundRow(rows) ==
    LET total == CountNotNull(rows, "name")
        passed == AggSum(rows, "binary")
    IN [total |-> total,
        passed |-> passed,
        avg_score |-> AggMean(rows, "score"),
        failed |-> total - passed,
        pass_rate |-> FRound(FDiv(passed * 100, total), 10)]

round_stats(cse) ==
    [k \in GroupKeys(cse, <<"round">>) |-> RoundRow(GroupRows(cse, <<"round">>, k))]

\* 합격률 is the mean of 합격여부_binary, * 100, .round(1) (no .round(2) first).
GradeRoundRow(rows) ==
    [applicants |-> CountNotNull(rows, "name"),
     passed |-> AggSum(rows, "binary"),
     pass_rate |-> FRound(FTimes(AggMean(rows, "binary"), 100), 10),
     avg_score |-> AggMean(rows, "score")]

grade_round_stats(cse) ==
    [k \in GroupKeys(cse, <<"round", "grade">>) |->
        GradeRoundRow(GroupRows(cse, <<"round", "grade">>, k))]

\* The 점수표준편차 column (std) is not represented.
grade_stats(cse) == GroupStats(cse, <<"grade">>)

(***************************************************************************)
(* Tab 5 (admin): students with three or more attempts.                    *)
(***************************************************************************)
StudentKey == <<"name", "email", "sid">>

\* groupby(['이름', '이메일', '학번']).size(): one row per key, with 응시횟수.
student_attempts(fd) ==
    LET keys == SetToSeq(GroupKeys(fd, StudentKey))
    IN [j \in DOMAIN keys |->
            [name |-> keys[j][1], email |-> keys[j][2], sid |-> keys[j][3],
             attempts |-> Len(GroupRows(fd, StudentKey, keys[j]))]]

FrequentThreshold == 3

\* Variant of frequent_test_takers with the threshold off by one (>= 2).
frequent_test_takers_AtLeastTwo(fd) ==
    LET sa == student_attempts(fd)
    IN MaskSelect(sa, [j \in DOMAIN sa |-> sa[j].attempts >= FrequentThreshold - 1])

frequent_test_takers(fd) ==
    LET sa == student_attempts(fd)
    IN MaskSelect(sa, [j \in DOMAIN sa |-> sa[j].attempts >= FrequentThreshold])

\* sort_values('회차'): rows by ascending round, equal rounds in table order.
RECURSIVE SortByRound(_)
SortByRound(t) ==
    IF t = <<>> THEN <<>>
    ELSE LET lo == SeqMin(Column(t, "round"))
             first == CHOOSE i \in DOMAIN t :
                         /\ t[i].round = lo
                         /\ \A j \in 1..(i - 1) : t[j].round # lo
         IN <<t[first]>> \o
            SortByRound(MaskSelect(t, [i \in DOMAIN t |-> i # first]))

\* The rows main() selects for one row of frequent_test_takers.
student_data(fd, row) ==
    SortByRound(MaskSelect(fd, [i \in DOMAIN fd |->
        /\ fd[i].name = row.name
        /\ fd[i].email = row.email
        /\ fd[i].sid = row.sid]))

detailed_info(fd) ==
    LET ft == frequent_test_takers(fd)
    IN [j \in DOMAIN ft |->
        LET sd == student_data(fd, ft[j])
        IN [name |-> ft[j].name, email |-> ft[j].email, sid |-> ft[j].sid,
            dept |-> sd[1].dept, grade |-> sd[1].grade,
            attempts |-> ft[j].attempts,
            passes |-> Cardinality({i \in DOMAIN sd : sd[i].status = PASS}),
            avg_score |-> FRound(AggMean(sd, "score"), 10),
            max_score |-> AggMax(sd, "score")]]

(***************************************************************************)
(* Tab 7 (admin): retake students and the per-grade score table.           *)
(***************************************************************************)
RetakeKey == <<"name", "sid">>

\* groupby(['이름', '학번']).filter(lambda x: len(x) > 1): the rows of the
\* groups with more than one row, in table order.
retake_students(fd) ==
    MaskSelect(fd, [i \in DOMAIN fd |->
        /\ ~HasNull(fd[i], RetakeKey)
        /\ Len(GroupRows(fd, RetakeKey, KeyOf(fd[i], RetakeKey))) > 1])

ToF(v) == IF v = NaN THEN FNaN ELSE FInt(v)

\* agg({'총점': ['first', 'last', 'mean'], '회차': ['first', 'last']}) and
\* 점수향상도 = 최근시험점수 - 첫시험점수.
ProgressRow(rows) ==
    LET first == ToF(AggFirst(rows, "score"))
        last == ToF(AggLast(rows, "score"))
    IN [first_score |-> first,
        last_score |-> last,
        avg_score |-> AggMean(rows, "score"),
        first_round |-> AggFirst(rows, "round"),
        last_round |-> AggLast(rows, "round"),
        improvement |-> FMinus(last, first)]

student_progress(rs) ==
    [k \in GroupKeys(rs, RetakeKey) |-> ProgressRow(GroupRows(rs, RetakeKey, k))]

\* groupby('학년').agg({'총점': ['mean', 'std', 'min', 'max'],
\* '합격여부_binary': 'mean'}).round(2); the std column is not represented.
GradeScoreRow(rows) ==
    [avg_score |-> FRound(AggMean(rows, "score"), 100),
     min_score |-> AggMin(rows, "score"),
     max_score |-> AggMax(rows, "score"),
     pass_rate |-> FRound(FTimes(FRound(AggMean(rows, "binary"), 100), 100), 10)]

grade_score_stats(fd) ==
    [k \in GroupKeys(fd, <<"grade">>) |->
        GradeScoreRow(GroupRows(fd, <<"grade">>, k))]

(***************************************************************************)
(* Tab 7 (admin): the per-round trend table behind the trend chart.  The   *)
(* 표준편차 column (std) is not represented.  The code draws the two lines  *)
(* and derives nothing further from the table.                             *)
(***************************************************************************)
\* 합격률 is the mean of 합격여부_binary * 100, not rounded.
TrendRow(rows) ==
    [avg_score |-> AggMean(rows, "score"),
     pass_rate |-> FTimes(AggMean(rows, "binary"), 100)]

round_trend(fd) ==
    [k \in GroupKeys(fd, <<"round">>) |-> TrendRow(GroupRows(fd, <<"round">>, k))]

\* What the run reports as the direction of the trend: round_trend is only
\* handed to the two line traces of fig_trend; no direction (rising,
\* falling, flat, insufficient data) is computed, returned or shown.
NoDirection == "none"

(***************************************************************************)
(* Tab 8 (admin): round 3 against round 5 over the computer-science        *)
(* records.                                                                *)
(***************************************************************************)
round3_df(cse) == MaskSelect(cse, [i \in DOMAIN cse |-> cse[i].round = 3])

round5_df(cse) == MaskSelect(cse, [i \in DOMAIN cse |-> cse[i].round = 5])

\* The dict built for each round: len, 총점 mean, binary mean * 100, max, min.
ComparisonStats(rows) ==
    [applicants |-> Len(rows),
     avg_score |-> AggMean(rows, "score"),
     pass_rate |-> FTimes(AggMean(rows, "binary"), 100),
     max_score |-> AggMax(rows, "score"),
     min_score |-> AggMin(rows, "score")]

round3_stats(cse) == ComparisonStats(round3_df(cse))

round5_stats(cse) == ComparisonStats(round5_df(cse))

GradeOf(rows, grade) ==
    MaskSelect(rows, [i \in DOMAIN rows |-> rows[i].grade = grade])

\* The row appended for a grade; NaN - x and x - NaN are NaN.  (The table
\* shown last rounds the two changes to one decimal; not represented.)
GradeComparisonRow(grade3_df, grade5_df) ==
    [applicants3 |-> Len(grade3_df),
     avg_score3 |-> AggMean(grade3_df, "score"),
     pass_rate3 |-> FTimes(AggMean(grade3_df, "binary"), 100),
     applicants5 |-> Len(grade5_df),
     avg_score5 |-> AggMean(grade5_df, "score"),
     pass_rate5 |-> FTimes(AggMean(grade5_df, "binary"), 100),
     avg_score_change |->
        FMinus(AggMean(grade5_df, "score"), AggMean(grade3_df, "score")),
     pass_rate_change |->
        FTimes(FMinus(AggMean(grade5_df, "binary"),
                      AggMean(grade3_df, "binary")), 100)]

\* The loop over sorted(cse_df['학년'].unique()): a row for each grade whose
\* round-3 and round-5 subsets are both non-empty.
comparison_grade_stats(cse) ==
    [grade \in {g \in Unique(cse, "grade") :
                    /\ GradeOf(round3_df(cse), g) # <<>>
                    /\ GradeOf(round5_df(cse), g) # <<>>} |->
        GradeComparisonRow(GradeOf(round3_df(cse), grade),
                           GradeOf(round5_df(cse), grade))]

NoComparisonStats ==
    [applicants |-> 0, avg_score |-> FNaN, pass_rate |-> FNaN,
     max_score |-> NaN, min_score |-> NaN]

\* Nothing of the tab was evaluated (not an administrator's run).
NoComparison ==
    [compared |-> FALSE, metrics |-> {}, warnings |-> {},
     round3_stats |-> NoComparisonStats,
     round5_stats |-> NoComparisonStats, grade_stats |-> <<>>,
     insights |-> FALSE, avg_score_change |-> FNaN, pass_rate_change |-> FNaN,
     raised |-> FALSE]

\* Variant that compares as soon as one of the rounds has records.
ComparisonRuns_EitherRound(r3, r5) == r3 # <<>> \/ r5 # <<>>

\* if not round3_df.empty and not round5_df.empty
ComparisonRuns(r3, r5) == r3 # <<>> /\ r5 # <<>>

\* What tab 8 shows (metrics: the rounds whose dict is shown as st.metric).
\* With both rounds present: the two round dicts as
\* metrics, then the per-grade table; grade_stats starts as pd.DataFrame()
\* without columns and grade_stats['학년'] raises KeyError when no row was
\* appended, which ends the run before the insights (the two overall
\* changes) are computed.  Otherwise only the warnings, one per empty round.
comparison(cse) ==
    LET r3 == round3_df(cse)
        r5 == round5_df(cse)
        gs == comparison_grade_stats(cse)
    IN IF ComparisonRuns(r3, r5)
       THEN [NoComparison EXCEPT
                !.compared = TRUE,
                !.metrics = {3, 5},
                !.round3_stats = round3_stats(cse),
                !.round5_stats = round5_stats(cse),
                !.grade_stats = gs,
                !.raised = (DOMAIN gs = {}),
                !.insights = (DOMAIN gs # {}),
                !.avg_score_change =
                    IF DOMAIN gs = {} THEN FNaN
                    ELSE FMinus(round5_stats(cse).avg_score,
                                round3_stats(cse).avg_score),
                !.pass_rate_change =
                    IF DOMAIN gs = {} THEN FNaN
                    ELSE FMinus(round5_stats(cse).pass_rate,
                                round3_stats(cse).pass_rate)]
       ELSE [NoComparison EXCEPT
                !.warnings = (IF r3 = <<>> THEN {3} ELSE {})
                             \cup (IF r5 = <<>> THEN {5} ELSE {})]

(***************************************************************************)
(* main(): one run of the script.  The result records what the run         *)
(* rendered: phase "error" (no table, return before the sidebar),          *)
(* "exception" (the first sorted() of the sidebar raised), "nodata" (the   *)
(* filtered table is empty: warning and return) or "ok" (tabs rendered);   *)
(* computed names the aggregations the run evaluated, options the options  *)
(* its multiselects offered, raised the uncaught exception that ended it,  *)
(* message the error the insert form showed.                               *)
(***************************************************************************)
PublicTabs == 1..4

AdminTabs == 5..9

\* The tabs whose content an administrator's run renders when tab 8 raises.
TabsBeforeForm == 1..8

PublicAggregations == {"overall", "dept_stats", "subject_stats"}

CseAggregations == {"round_stats", "grade_round_stats", "grade_stats"}

AdminAggregations ==
    {"student_attempts", "round_trend", "retake_students", "grade_score_stats",
     "comparison"}

NoOverall ==
    [total_applicants |-> 0, total_passed |-> 0, total_pass_rate |-> FInt(0),
     avg_score |-> FNaN]

NoSelection ==
    [departments |-> {}, grades |-> {}, pass_status |-> {}, levels |-> {},
     subjects |-> {}]

Blank(phase, warning) ==
    [phase |-> phase, warning |-> warning, filtered |-> <<>>, tabs |-> {},
     computed |-> {}, overall |-> NoOverall, dept_stats |-> <<>>,
     subject_stats |-> <<>>, round_stats |-> <<>>, grade_round_stats |-> <<>>,
     grade_stats |-> <<>>, detailed_info |-> <<>>, retake_students |-> <<>>,
     student_progress |-> <<>>, grade_score_stats |-> <<>>,
     round_trend |-> <<>>, trend_direction |-> NoDirection,
     comparison |-> NoComparison,
     options |-> NoSelection, raised |-> "", message |-> <<>>]

\* Variant that creates the nine tabs for every session.
ShowsAdminTabs_Always(admin) == TRUE

\* if st.session_state.is_admin: the nine tabs, tab 9 with the insert form.
ShowsAdminTabs(admin) == admin

Tabs(fd, admin) ==
    LET cse == cse_df(fd)
        rs == retake_students(fd)
        cmp == IF admin THEN comparison(cse) ELSE NoComparison
    IN [phase |-> "ok",
        warning |-> FALSE,
        filtered |-> fd,
        tabs |-> IF ~ShowsAdminTabs(admin) THEN PublicTabs
                 ELSE IF cmp.raised THEN TabsBeforeForm
                 ELSE PublicTabs \cup AdminTabs,
        computed |-> PublicAggregations
                     \cup (IF cse = <<>> THEN {} ELSE CseAggregations)
                     \cup (IF admin THEN AdminAggregations ELSE {}),
        overall |-> [total_applicants |-> total_applicants(fd),
                     total_passed |-> total_passed(fd),
                     total_pass_rate |-> total_pass_rate(fd),
                     avg_score |-> avg_score(fd)],
        dept_stats |-> dept_stats(fd),
        subject_stats |-> subject_stats(fd),
        round_stats |-> IF cse = <<>> THEN <<>> ELSE round_stats(cse),
        grade_round_stats |-> IF cse = <<>> THEN <<>> ELSE grade_round_stats(cse),
        grade_stats |-> IF cse = <<>> THEN <<>> ELSE grade_stats(cse),
        detailed_info |-> IF admin THEN detailed_info(fd) ELSE <<>>,
        retake_students |-> IF admin THEN rs ELSE <<>>,
        student_progress |->
            IF admin /\ rs # <<>> THEN student_progress(rs) ELSE <<>>,
        grade_score_stats |-> IF admin THEN grade_score_stats(fd) ELSE <<>>,
        round_trend |-> IF admin THEN round_trend(fd) ELSE <<>>,
        trend_direction |-> NoDirection,
        comparison |-> cmp,
        options |-> NoSelection,
        raised |-> IF cmp.raised THEN "KeyError" ELSE "",
        message |-> <<>>]

\* sorted(df[col].unique()) compares None with a string: TypeError, unless
\* every cell of the column is None.
SortFailsOn(options) ==
    \E f \in {"departments", "subjects"} :
        NULL \in options[f] /\ options[f] # {NULL}

SortFails(df) == SortFailsOn(Options(df))

\* Variant of main that does not stop on an empty filtered table.
main_NoEmptyCheck(loaded, s, admin) ==
    LET options == Options(loaded.df)
    IN IF ~loaded.ok THEN Blank("error", FALSE)
       ELSE IF SortFailsOn(options)
       THEN [Blank("exception", FALSE) EXCEPT !.raised = "TypeError"]
       ELSE [Tabs(filtered_df(loaded.df, s), admin) EXCEPT
                !.options = options]

main(loaded, s, admin) ==
    LET options == Options(loaded.df)
        fd == filtered_df(loaded.df, s)
    IN IF ~loaded.ok THEN Blank("error", FALSE)
       ELSE IF SortFailsOn(options)
       THEN [Blank("exception", FALSE) EXCEPT !.raised = "TypeError"]
       ELSE IF fd = <<>>
       THEN [Blank("nodata", TRUE) EXCEPT !.options = options]
       ELSE [Tabs(fd, admin) EXCEPT !.options = options]

\* The sidebar (filters, refresh button, login form) is built only by a run
\* that got a table and sorted its columns.
\* Variant in which the sidebar is built whatever the load returned.
SidebarBuilt_Always(run) == TRUE

SidebarBuilt(run) == run.phase \in {"ok", "nodata"}

SidebarShown == SidebarBuilt(out)

(***************************************************************************)
(* The cached load.  st.cache_data(ttl=600) is one store of the server     *)
(* process: it returns the entry while it is held and otherwise runs the   *)
(* function and keeps what it returned, None included.                     *)
(***************************************************************************)
\* Variant of the function run that does not notice a store that is down.
Fetch_IgnoresOutage(table, up) == load_data_from_supabase(table)

\* The function run: an exception of the client is caught and gives None.
Fetch(table, up) == IF up THEN load_data_from_supabase(table) ELSE None

Load == IF cached THEN cache ELSE Fetch(store, reachable)

\* The value of one multiselect in a run: the value the browser holds when
\* the previous run built the widget with the same options, else the
\* default (a widget without key is a new widget when its options change,
\* and a widget the previous run did not build has no value).
Widget(prev, s, options, f) ==
    IF SidebarBuilt(prev) /\ prev.options[f] = options[f]
    THEN s[f] ELSE options[f]

Widgets(prev, s, loaded) ==
    LET options == Defaults(loaded.df)
    IN IF ~loaded.ok \/ SortFailsOn(options) THEN NoSelection
       ELSE [departments |-> Widget(prev, s, options, "departments"),
             grades |-> Widget(prev, s, options, "grades"),
             pass_status |-> Widget(prev, s, options, "pass_status"),
             levels |-> Widget(prev, s, options, "levels"),
             subjects |-> Widget(prev, s, options, "subjects")]

\* The run reaches the buttons of the sidebar (refresh, login, logout).
ReachesButtons(loaded) == loaded.ok /\ ~SortFails(loaded.df)

(***************************************************************************)
(* The write interface.  error is the exception execute() raised, "" when  *)
(* it returned.  Each function returns (success, message); table is the    *)
(* table the call leaves in the store.  Rows carry the id the store gave.  *)
(***************************************************************************)
Stored(data, id) ==
    [round |-> data.round, subject |-> data.subject, name |-> data.name,
     sid |-> data.sid, email |-> data.email, dept |-> data.dept,
     grade |-> data.grade, score |-> data.score, status |-> data.status,
     level |-> data.level, id |-> id]

WithIds(table) == [i \in DOMAIN table |-> Stored(table[i], i)]

RECURSIVE MaxIdOf(_)
MaxIdOf(table) ==
    IF table = <<>> THEN 0
    ELSE LET m == MaxIdOf(Tail(table))
         IN IF Head(table).id >= m THEN Head(table).id ELSE m

NextId(table) == MaxIdOf(table) + 1

\* Variant of insert_pcc_result that reports success whatever happened.
insert_pcc_result_AlwaysTrue(table, data, error) ==
    [success |-> TRUE, message |-> <<"added">>,
     table |-> IF error = "" THEN Append(table, Stored(data, NextId(table)))
               ELSE table]

insert_pcc_result(table, data, error) ==
    IF error = ""
    THEN [success |-> TRUE, message |-> <<"added">>,
          table |-> Append(table, Stored(data, NextId(table)))]
    ELSE [success |-> FALSE, message |-> <<"insert failed", error>>,
          table |-> table]

\* update(data).eq('id', record_id): every row with that id; no such row is
\* not an exception.
update_pcc_result(table, record_id, data, error) ==
    IF error = ""
    THEN [success |-> TRUE, message |-> <<"updated">>,
          table |-> [i \in DOMAIN table |->
                        IF table[i].id = record_id
                        THEN Stored(data, record_id) ELSE table[i]]]
    ELSE [success |-> FALSE, message |-> <<"update failed", error>>,
          table |-> table]

delete_pcc_result(table, record_id, error) ==
    IF error = ""
    THEN [success |-> TRUE, message |-> <<"deleted">>,
          table |-> MaskSelect(table,
                        [i \in DOMAIN table |-> table[i].id # record_id])]
    ELSE [success |-> FALSE, message |-> <<"delete failed", error>>,
          table |-> table]

\* What execute() can raise: nothing or a rejection by the store while it
\* answers, a connection error while it does not.
StoreErrors(up) == IF up THEN {"", "rejected"} ELSE {"connection failed"}

NoWrite ==
    [op |-> "none", success |-> FALSE, message |-> <<>>, error |-> "",
     row |-> <<>>]

Written(op, res, error, row) ==
    [op |-> op, success |-> res.success, message |-> res.message,
     error |-> error, row |-> row]

(***************************************************************************)
(* Actions: one per user interaction; each reruns main().                  *)
(***************************************************************************)
\* One run of main() over the table loaded, s being the multiselect values
\* the browser sends; the load leaves its result in the cache.
Rerun(loaded, s, admin) ==
    /\ cache' = loaded
    /\ cached' = TRUE
    /\ sel' = Widgets(out, s, loaded)
    /\ out' = main(loaded, sel', admin)

\* A change of one multiselect: the user adds or removes options, so the
\* value sent differs from the one held.
SelectDepartments ==
    /\ SidebarShown
    /\ \E S \in SUBSET out.options.departments :
          /\ S # sel.departments
          /\ Rerun(Load, [sel EXCEPT !.departments = S], is_admin)
    /\ UNCHANGED <<store, reachable, authenticated, is_admin, write, peer>>

SelectGrades ==
    /\ SidebarShown
    /\ \E S \in SUBSET out.options.grades :
          /\ S # sel.grades
          /\ Rerun(Load, [sel EXCEPT !.grades = S], is_admin)
    /\ UNCHANGED <<store, reachable, authenticated, is_admin, write, peer>>

SelectPassStatus ==
    /\ SidebarShown
    /\ \E S \in SUBSET out.options.pass_status :
          /\ S # sel.pass_status
          /\ Rerun(Load, [sel EXCEPT !.pass_status = S], is_admin)
    /\ UNCHANGED <<store, reachable, authenticated, is_admin, write, peer>>

SelectLevels ==
    /\ SidebarShown
    /\ \E S \in SUBSET out.options.levels :
          /\ S # sel.levels
          /\ Rerun(Load, [sel EXCEPT !.levels = S], is_admin)
    /\ UNCHANGED <<store, reachable, authenticated, is_admin, write, peer>>

SelectSubjects ==
    /\ SidebarShown
    /\ \E S \in SUBSET out.options.subjects :
          /\ S # sel.subjects
          /\ Rerun(Load, [sel EXCEPT !.subjects = S], is_admin)
    /\ UNCHANGED <<store, reachable, authenticated, is_admin, write, peer>>

\* The refresh button: the run that handles the click loads first; if it
\* reaches the button: st.cache_data.clear(), st.rerun(), and the rerun
\* fetches.
Refresh ==
    /\ SidebarShown
    /\ Rerun(IF ReachesButtons(Load) THEN Fetch(store, reachable) ELSE Load,
             sel, is_admin)
    /\ UNCHANGED <<store, reachable, authenticated, is_admin, write, peer>>

\* Variant in which a write to st.session_state reaches every session.
OtherSession_Shared(p, flag) ==
    [p EXCEPT !.authenticated = flag, !.is_admin = flag]

\* st.session_state belongs to one session: the other session's state after
\* this session set its two flags to flag.
OtherSession(p, flag) == p

Usernames == {AdminUsername, "guest"}

Passwords == {AdminPassword, "wrong"}

\* Variant of the credential test that looks at the username only.
CredentialsOk_UsernameOnly(username, password) == username = AdminUsername

CredentialsOk(username, password) ==
    username = AdminUsername /\ password = AdminPassword

\* login(): the login button with the two text inputs as typed.  The run
\* handles the click only if it reaches login().
loginWith(username, password) ==
    /\ SidebarShown
    /\ IF ReachesButtons(Load) /\ CredentialsOk(username, password)
       THEN /\ authenticated' = TRUE
            /\ is_admin' = TRUE
            /\ peer' = OtherSession(peer, TRUE)
       ELSE UNCHANGED <<authenticated, is_admin, peer>>
    /\ Rerun(Load, sel, is_admin')
    /\ UNCHANGED <<store, reachable, write>>

login == \E username \in Usernames, password \in Passwords :
             loginWith(username, password)

\* logout(): the button is offered only while is_admin.
logout ==
    /\ SidebarShown
    /\ is_admin
    /\ IF ReachesButtons(Load)
       THEN /\ authenticated' = FALSE
            /\ is_admin' = FALSE
            /\ peer' = OtherSession(peer, FALSE)
       ELSE UNCHANGED <<authenticated, is_admin, peer>>
    /\ Rerun(Load, sel, is_admin')
    /\ UNCHANGED <<store, reachable, write>>

\* The sessions of the first four specifications: the store answers and is
\* written by nobody, and the cache entry does not expire.
Next ==
    \/ SelectDepartments
    \/ SelectGrades
    \/ SelectPassStatus
    \/ SelectLevels
    \/ SelectSubjects
    \/ Refresh
    \/ login
    \/ logout

(***************************************************************************)
(* Initial states: a table in the store and the first run of main() in a   *)
(* fresh session.  The store is an external table whose cells may be       *)
(* missing; 회차, 학년, 학과 and 시험과목 are present in every row of the   *)
(* tables below.                                                           *)
(***************************************************************************)
NoPeer == [authenticated |-> FALSE, is_admin |-> FALSE, loaded |-> None]

FirstRunOver(table, up) ==
    /\ store = WithIds(table)
    /\ reachable = up
    /\ cache = Fetch(store, up)
    /\ cached = TRUE
    /\ authenticated = FALSE
    /\ is_admin = FALSE
    /\ sel = Widgets(Blank("error", FALSE), NoSelection, cache)
    /\ out = main(cache, sel, FALSE)
    /\ write = NoWrite
    /\ peer = NoPeer

FirstRun(table) == FirstRunOver(table, TRUE)

Rec(round, subject, name, sid, email, dept, grade, score, status, level) ==
    [round |-> round, subject |-> subject, name |-> name, sid |-> sid,
     email |-> email, dept |-> dept, grade |-> grade, score |-> score,
     status |-> status, level |-> level]

\* Tables that differ in the five filtered columns (and in a status outside
\* the vocabulary): a base row and the rows that differ from it in one column.
FilterPool ==
    {Rec(1, "PCCP", "Kim", "1", "a@x", d, 1, 50, PASS, "Lv1") : d \in {CSE, "Math"}}
    \cup {Rec(1, "PCCP", "Kim", "1", "a@x", CSE, 2, 50, PASS, "Lv1")}
    \cup {Rec(1, "PCCP", "Kim", "1", "a@x", CSE, 1, 50, st, "Lv1") :
            st \in {FAIL, "absent"}}
    \cup {Rec(1, "PCCP", "Kim", "1", "a@x", CSE, 1, 50, PASS, NULL)}
    \cup {Rec(1, "PCCE", "Kim", "1", "a@x", CSE, 1, 50, PASS, "Lv1")}

InitFilter == \E table \in SeqsUpTo(FilterPool, MaxFilterRecs) : FirstRun(table)

SpecFilter == InitFilter /\ [][Next]_vars

\* Tables that differ in what the statistics read: department, round, a
\* missing name, a missing or non-numeric score, the status.
AggPool ==
    {Rec(r, "PCCP", n, "1", "a@x", d, 1, sc, st, "Lv1") :
        r \in {1, 2}, n \in {"Kim", NULL}, d \in {CSE, "Math"},
        sc \in {40, NaN, NonNumeric}, st \in {PASS, FAIL}}

InitAgg == \E table \in SeqsUpTo(AggPool, MaxAggRecs) : FirstRun(table)

SpecAgg == InitAgg /\ [][Next]_vars

\* Tables that differ in the student key: a base key, keys that differ from
\* it in the name or in the email only, and keys with a missing field.
StudentPool ==
    {Rec(1, "PCCP", k[1], k[2], k[3], CSE, 1, 50, PASS, "Lv1") :
        k \in {<<"Kim", "1", "a@x">>, <<"Lee", "1", "a@x">>,
               <<"Kim", "1", "b@x">>,
               <<"Kim", NULL, "a@x">>, <<"Kim", "1", NULL>>}}

InitStudent == \E table \in SeqsUpTo(StudentPool, MaxStudentRecs) : FirstRun(table)

SpecStudent == InitStudent /\ [][Next]_vars

\* One student's attempts, in any order of rounds, with scores missing.
RetakePool ==
    {Rec(r, "PCCP", "Kim", "1", "a@x", CSE, 1, sc, PASS, "Lv1") :
        r \in {1, 2, 3}, sc \in {10, 20, NaN}}

InitRetake == \E table \in SeqsUpTo(RetakePool, MaxRetakeRecs) : FirstRun(table)

SpecRetake == InitRetake /\ [][Next]_vars

\* Computer-science records of rounds 3 and 5 in two grades, one of them
\* without a score.
ComparePool ==
    {Rec(3, "PCCP", "Kim", "1", "a@x", CSE, 1, 40, FAIL, "Lv1"),
     Rec(3, "PCCP", "Kim", "1", "a@x", CSE, 2, 60, PASS, "Lv1"),
     Rec(5, "PCCP", "Kim", "1", "a@x", CSE, 1, 60, PASS, "Lv1"),
     Rec(5, "PCCP", "Kim", "1", "a@x", CSE, 2, 40, FAIL, "Lv1"),
     Rec(5, "PCCP", "Kim", "1", "a@x", CSE, 1, NaN, FAIL, "Lv1")}

InitCompare == \E table \in SeqsUpTo(ComparePool, MaxCompareRecs) : FirstRun(table)

SpecCompare == InitCompare /\ [][Next]_vars

\* Tables that differ in the level column: a level, another level, a missing
\* cell, a row without the key; no row with the key is a table without the
\* column.
LevelPool ==
    {Rec(1, "PCCP", "Kim", "1", "a@x", CSE, 1, 50, PASS, lv) :
        lv \in {"Lv1", "Lv2", NULL, Absent}}

InitLevel == \E table \in SeqsUpTo(LevelPool, MaxLevelRecs) : FirstRun(table)

SpecLevel == InitLevel /\ [][Next]_vars

(***************************************************************************)
(* The write interface called directly, the insert form of tab 9, the      *)
(* store going down and coming back, the cache entry expiring, and a       *)
(* second session.                                                         *)
(***************************************************************************)
\* new_data of the form: a filled form, and the form submitted as it is
\* (empty text inputs; 등급, 학과, 학번 become None).
FormData ==
    {Rec(5, "PCCP", "Lee", "2", "b@x", CSE, 1, 70, PASS, "Lv2"),
     Rec(1, "", "", NULL, "", NULL, 1, 0, PASS, NULL)}

\* A caller of insert_pcc_result.
CallInsert ==
    /\ Len(store) < MaxStoreRecs
    /\ NextId(store) <= MaxRecordId
    /\ \E data \in FormData, error \in StoreErrors(reachable) :
          LET res == insert_pcc_result(store, data, error)
          IN /\ store' = res.table
             /\ write' = Written("insert", res, error, data)
    /\ UNCHANGED <<reachable, cache, cached, authenticated, is_admin, sel, out,
                   peer>>

\* A caller of update_pcc_result.
CallUpdate ==
    /\ \E record_id \in 1..MaxRecordId, data \in FormData,
          error \in StoreErrors(reachable) :
          LET res == update_pcc_result(store, record_id, data, error)
          IN /\ store' = res.table
             /\ write' = Written("update", res, error, data)
    /\ UNCHANGED <<reachable, cache, cached, authenticated, is_admin, sel, out,
                   peer>>

\* A caller of delete_pcc_result.
CallDelete ==
    /\ \E record_id \in 1..MaxRecordId, error \in StoreErrors(reachable) :
          LET res == delete_pcc_result(store, record_id, error)
          IN /\ store' = res.table
             /\ write' = Written("delete", res, error, <<>>)
    /\ UNCHANGED <<reachable, cache, cached, authenticated, is_admin, sel, out,
                   peer>>

\* The store stops answering (network, service, credentials revoked).
StoreDown ==
    /\ reachable
    /\ reachable' = FALSE
    /\ UNCHANGED <<store, cache, cached, authenticated, is_admin, sel, out,
                   write, peer>>

\* The store answers again.
StoreUp ==
    /\ ~reachable
    /\ reachable' = TRUE
    /\ UNCHANGED <<store, cache, cached, authenticated, is_admin, sel, out,
                   write, peer>>

\* ttl=600: the entry is dropped ten minutes after it was stored.
Expire ==
    /\ cached
    /\ cached' = FALSE
    /\ cache' = None
    /\ UNCHANGED <<store, reachable, authenticated, is_admin, sel, out, write,
                   peer>>

\* Rerun from the menu or the R key: the one interaction a page without
\* widgets still offers.
ScriptRerun ==
    /\ Rerun(Load, sel, is_admin)
    /\ UNCHANGED <<store, reachable, authenticated, is_admin, write, peer>>

\* Variant of the submit handler that clears the cache and reruns whatever
\* insert_pcc_result returned.
ClearsAndReruns_Always(success) == TRUE

\* Variant of the submit handler that never clears the cache nor reruns.
ClearsAndReruns_Never(success) == FALSE

\* if success: st.success, st.cache_data.clear(), st.rerun()
\* else: st.error(message)
ClearsAndReruns(success) == success

\* The submit button of add_data_form.  The run that handles the click
\* loads, filters and renders tabs 1 to 8 first; if it reaches the form it
\* calls insert_pcc_result once.
SubmitInsert ==
    /\ 9 \in out.tabs
    /\ Len(store) < MaxStoreRecs
    /\ NextId(store) <= MaxRecordId
    /\ \E data \in FormData, error \in StoreErrors(reachable) :
          LET loaded == Load
              s == Widgets(out, sel, loaded)
              run == main(loaded, s, is_admin)
              res == insert_pcc_result(store, data, error)
          IN IF 9 \notin run.tabs
             THEN /\ cache' = loaded
                  /\ sel' = s
                  /\ out' = run
                  /\ UNCHANGED <<store, write>>
             ELSE /\ store' = res.table
                  /\ write' = Written("insert", res, error, data)
                  /\ IF ClearsAndReruns(res.success)
                     THEN LET fresh == Fetch(store', reachable)
                          IN /\ cache' = fresh
                             /\ sel' = Widgets(run, s, fresh)
                             /\ out' = main(fresh, sel', is_admin)
                     ELSE /\ cache' = loaded
                          /\ sel' = s
                          /\ out' = [run EXCEPT !.message = res.message]
    /\ cached' = TRUE
    /\ UNCHANGED <<reachable, authenticated, is_admin, peer>>

\* Another client of the table (an import, the store's console) adds a row.
ExternalInsert ==
    /\ reachable
    /\ Len(store) < MaxStoreRecs
    /\ NextId(store) <= MaxRecordId
    /\ \E data \in FormData :
          store' = Append(store, Stored(data, NextId(store)))
    /\ UNCHANGED <<reachable, cache, cached, authenticated, is_admin, sel, out,
                   write, peer>>

\* A run of main() in the second session: it loads through the same
\* st.cache_data.  peer.loaded is the table that run read.
PeerRun ==
    /\ peer' = [peer EXCEPT !.loaded = Load]
    /\ cache' = Load
    /\ cached' = TRUE
    /\ UNCHANGED <<store, reachable, authenticated, is_admin, sel, out, write>>

\* The refresh button in the second session.  The run that handles the
\* click loads first and clears the cache only if it reaches the button.
PeerRefresh ==
    /\ ReachesButtons(peer.loaded)
    /\ LET loaded == IF ReachesButtons(Load)
                     THEN Fetch(store, reachable)
                     ELSE Load
       IN /\ peer' = [peer EXCEPT !.loaded = loaded]
          /\ cache' = loaded
    /\ cached' = TRUE
    /\ UNCHANGED <<store, reachable, authenticated, is_admin, sel, out, write>>

\* login() with the right credentials in the second session.
PeerLogin ==
    /\ ReachesButtons(peer.loaded)
    /\ peer' = IF ReachesButtons(Load)
               THEN [authenticated |-> TRUE, is_admin |-> TRUE, loaded |-> Load]
               ELSE [peer EXCEPT !.loaded = Load]
    /\ cache' = Load
    /\ cached' = TRUE
    /\ UNCHANGED <<store, reachable, authenticated, is_admin, sel, out, write>>

\* logout() in the second session.
PeerLogout ==
    /\ ReachesButtons(peer.loaded)
    /\ peer.is_admin
    /\ peer' = IF ReachesButtons(Load)
               THEN [authenticated |-> FALSE, is_admin |-> FALSE, loaded |-> Load]
               ELSE [peer EXCEPT !.loaded = Load]
    /\ cache' = Load
    /\ cached' = TRUE
    /\ UNCHANGED <<store, reachable, authenticated, is_admin, sel, out, write>>

\* The write interface under its callers.
NextWrite ==
    \/ CallInsert
    \/ CallUpdate
    \/ CallDelete
    \/ StoreDown
    \/ StoreUp

\* One session with the insert form, a store that can go down and a cache
\* entry that can expire.
NextApp ==
    \/ Next
    \/ ScriptRerun
    \/ SubmitInsert
    \/ StoreDown
    \/ StoreUp
    \/ Expire

\* Two sessions of one server process and another writer of the table; the
\* store answers and the entry does not expire.
NextSessions ==
    \/ Next
    \/ SubmitInsert
    \/ ExternalInsert
    \/ PeerRun
    \/ PeerRefresh
    \/ PeerLogin
    \/ PeerLogout

\* A server process with two sessions and another writer of the table, a
\* store that can go down and a cache entry that can expire.  Of the five
\* filters the session changes the pass status one.
NextServer ==
    \/ SelectPassStatus
    \/ Refresh
    \/ login
    \/ logout
    \/ ScriptRerun
    \/ SubmitInsert
    \/ StoreDown
    \/ StoreUp
    \/ Expire
    \/ ExternalInsert
    \/ PeerRun
    \/ PeerRefresh

AppPool == {Rec(3, "PCCP", "Kim", "1", "a@x", CSE, 1, 50, PASS, "Lv1")}

InitApp ==
    \E table \in SeqsUpTo(AppPool, MaxAppRecs), up \in BOOLEAN :
        FirstRunOver(table, up)

SpecWrite == InitApp /\ [][NextWrite]_vars

SpecApp == InitApp /\ [][NextApp]_vars

SpecServer == InitApp /\ [][NextServer]_vars

InitSessions == \E table \in SeqsUpTo(AppPool, MaxAppRecs) : FirstRun(table)

SpecSessions == InitSessions /\ [][NextSessions]_vars

Init == InitFilter

Spec == Init /\ [][Next]_vars

(***************************************************************************)
(* Properties.  They are stated over the state the last run left (cache,   *)
(* sel, out), with the expected values counted directly on the records.    *)
(***************************************************************************)
LoadedDf == cache.df

\* The positions of table t that satisfy P.
Where(t, P(_)) == {i \in DOMAIN t : P(t[i])}

Count(t, P(_)) == Cardinality(Where(t, P))

Occurrences(t, r) == Cardinality({i \in DOMAIN t : t[i] = r})

\* The record's value is accepted by every one of the five filters.
Accepted(r) ==
    /\ r.dept \in sel.departments
    /\ r.grade \in sel.grades
    /\ r.status \in sel.pass_status
    /\ r.level \in sel.levels
    /\ r.subject \in sel.subjects

DefaultSelection == sel = Options(LoadedDf)

(* C1: in every per-round row of round_stats, passed + failed = total,     *)
(* 0 <= passed <= total, failed >= 0, and total is the number of records   *)
(* of that round among the computer-science records of the filtered table. *)
C1_RoundStatsCounts ==
    \A k \in DOMAIN out.round_stats :
        LET row == out.round_stats[k]
            n == Count(out.filtered,
                       LAMBDA r : r.dept \in CseDepartments /\ r.round = k[1])
        IN /\ row.passed + row.failed = row.total
           /\ 0 <= row.passed
           /\ row.passed <= row.total
           /\ row.failed >= 0
           /\ row.total = n

(* C2: every pass rate of the run (overall, per department, per subject,   *)
(* per round, per grade) is a number in [0, 100], never NaN or infinite,   *)
(* and is 0 when the group's total count is 0.                             *)
RateInRange(rate, total) ==
    /\ IsFinite(rate)
    /\ FLeq(FInt(0), rate)
    /\ FLeq(rate, FInt(100))
    /\ total = 0 => rate = FInt(0)

C2_RatesInRange ==
    out.phase = "ok" =>
        /\ RateInRange(out.overall.total_pass_rate, out.overall.total_applicants)
        /\ \A k \in DOMAIN out.dept_stats :
              RateInRange(out.dept_stats[k].pass_rate, out.dept_stats[k].applicants)
        /\ \A k \in DOMAIN out.subject_stats :
              RateInRange(out.subject_stats[k].pass_rate,
                          out.subject_stats[k].applicants)
        /\ \A k \in DOMAIN out.round_stats :
              RateInRange(out.round_stats[k].pass_rate, out.round_stats[k].total)
        /\ \A k \in DOMAIN out.grade_stats :
              RateInRange(out.grade_stats[k].pass_rate, out.grade_stats[k].applicants)
        /\ \A k \in DOMAIN out.grade_round_stats :
              RateInRange(out.grade_round_stats[k].pass_rate,
                          out.grade_round_stats[k].applicants)

(* C3: a record of the loaded table is in filtered_df, as often as it is   *)
(* in the loaded table, if and only if each of its five filtered values is *)
(* in that filter's accepted set; with any accepted set empty, filtered_df *)
(* is empty.                                                               *)
C3_FilterConjunction ==
    out.phase # "error" =>
        /\ \A r \in Range(LoadedDf) :
              Occurrences(out.filtered, r) =
                  IF Accepted(r) THEN Occurrences(LoadedDf, r) ELSE 0
        /\ Range(out.filtered) \subseteq Range(LoadedDf)
        /\ (\E f \in FilterFields : sel[f] = {}) => out.filtered = <<>>

\* A run with a narrowed selection kept one record and dropped another.
C3_Witness ==
    /\ out.phase = "ok"
    /\ ~DefaultSelection
    /\ \E r \in Range(LoadedDf) : ~Accepted(r)
    /\ \E r \in Range(LoadedDf) : Accepted(r)

(* C4: filtering the filtered table again with the same five accepted sets *)
(* changes nothing, and with every accepted set at its default the         *)
(* filtered table is the loaded table, same records in the same order.     *)
C4_IdempotentAndDefaultIdentity ==
    out.phase # "error" =>
        /\ filtered_df(out.filtered, sel) = out.filtered
        /\ DefaultSelection => out.filtered = LoadedDf

(* C5: under the default selection a record whose status is neither 합격   *)
(* nor 불합격 is in filtered_df with its status unchanged and is counted   *)
(* in the overall applicant count.                                         *)
C5_UnknownStatusKept ==
    (out.phase # "error" /\ DefaultSelection) =>
        \A r \in Range(LoadedDf) :
            r.status \notin {PASS, FAIL} =>
                /\ r \in Range(out.filtered)
                /\ out.overall.total_applicants = Len(LoadedDf)

(* C6: when no loaded record is accepted by the five filters, the run      *)
(* shows the "no matching data" warning and stops: it evaluates no         *)
(* aggregation and renders no tab.                                         *)
C6_EmptyFilteredStops ==
    (out.phase # "error" /\ \A r \in Range(LoadedDf) : ~Accepted(r)) =>
        /\ out.phase = "nodata"
        /\ out.warning
        /\ out.computed = {}
        /\ out.tabs = {}

\* An administrator's run in which the selection accepts no record.
C6_Witness ==
    /\ is_admin
    /\ LoadedDf # <<>>
    /\ \A r \in Range(LoadedDf) : ~Accepted(r)
    /\ out.warning

\* The sum, over the positions idx of table t, of the scores.
RECURSIVE ScoreSum(_, _)
ScoreSum(t, idx) ==
    IF idx = {} THEN 0
    ELSE LET i == CHOOSE j \in idx : TRUE
         IN t[i].score + ScoreSum(t, idx \ {i})

\* Mean, largest and smallest score over the records of t that satisfy P
\* and have a score; NaN when there is none.
ScoredWhere(t, P(_)) == {i \in Where(t, P) : t[i].score # NaN}

MeanOfScored(t, P(_)) ==
    LET idx == ScoredWhere(t, P)
    IN FDiv(ScoreSum(t, idx), Cardinality(idx))

MaxOfScored(t, P(_)) ==
    LET sc == {t[i].score : i \in ScoredWhere(t, P)}
    IN IF sc = {} THEN NaN ELSE CHOOSE m \in sc : \A x \in sc : x <= m

MinOfScored(t, P(_)) ==
    LET sc == {t[i].score : i \in ScoredWhere(t, P)}
    IN IF sc = {} THEN NaN ELSE CHOOSE m \in sc : \A x \in sc : m <= x

(* C7: every score aggregate (mean, max, min) is taken over the records    *)
(* that have a score, and every headcount (the overall applicant count,    *)
(* each group's 응시자수) is the number of records of the group, the       *)
(* records without a score included.                                       *)
C7_MissingScoreCounted ==
    out.phase = "ok" =>
        /\ out.overall.total_applicants = Len(out.filtered)
        /\ out.overall.avg_score = MeanOfScored(out.filtered, LAMBDA r : TRUE)
        /\ \A k \in DOMAIN out.dept_stats :
              /\ out.dept_stats[k].applicants =
                    Count(out.filtered, LAMBDA r : r.dept = k[1])
              /\ out.dept_stats[k].avg_score =
                    FRound(MeanOfScored(out.filtered, LAMBDA r : r.dept = k[1]), 100)
        /\ \A k \in DOMAIN out.subject_stats :
              /\ out.subject_stats[k].applicants =
                    Count(out.filtered, LAMBDA r : r.subject = k[1])
              /\ out.subject_stats[k].avg_score =
                    FRound(MeanOfScored(out.filtered, LAMBDA r : r.subject = k[1]), 100)
        /\ \A k \in DOMAIN out.grade_score_stats :
              /\ out.grade_score_stats[k].max_score =
                    MaxOfScored(out.filtered, LAMBDA r : r.grade = k[1])
              /\ out.grade_score_stats[k].min_score =
                    MinOfScored(out.filtered, LAMBDA r : r.grade = k[1])

\* The number of records of table t with this name, student id and email,
\* and with this name and student id.
AttemptsOf(t, name, sid, email) ==
    Count(t, LAMBDA r : r.name = name /\ r.sid = sid /\ r.email = email)

AttemptsByNameAndId(t, name, sid) ==
    Count(t, LAMBDA r : r.name = name /\ r.sid = sid)

FrequentRowsOf(name, sid, email) ==
    {j \in DOMAIN out.detailed_info :
        /\ out.detailed_info[j].name = name
        /\ out.detailed_info[j].sid = sid
        /\ out.detailed_info[j].email = email}

C9_ThreeFieldIdentity ==
    (is_admin /\ out.phase = "ok") =>
        /\ \A j \in DOMAIN out.detailed_info :
              LET row == out.detailed_info[j]
              IN row.attempts = AttemptsOf(out.filtered, row.name, row.sid, row.email)
        /\ \A k \in DOMAIN out.student_progress :
              \A r1, r2 \in Range(out.retake_students) :
                  (/\ r1.name = k[1] /\ r1.sid = k[2]
                   /\ r2.name = k[1] /\ r2.sid = k[2]) => r1.email = r2.email

(* C10: for every retake student, 첫시험점수 is the score of a record of    *)
(* the student's lowest round, 최근시험점수 the score of a record of the    *)
(* highest round, and 점수향상도 is the second minus the first.            *)
C10_FirstLastByRound ==
    (is_admin /\ out.phase = "ok") =>
        \A k \in DOMAIN out.student_progress :
            LET row == out.student_progress[k]
                idx == {i \in DOMAIN out.filtered :
                           /\ out.filtered[i].name = k[1]
                           /\ out.filtered[i].sid = k[2]}
                rounds == {out.filtered[i].round : i \in idx}
                lo == CHOOSE m \in rounds : \A x \in rounds : m <= x
                hi == CHOOSE m \in rounds : \A x \in rounds : x <= m
            IN /\ \E i \in idx : /\ out.filtered[i].round = lo
                                 /\ row.first_score = ToF(out.filtered[i].score)
               /\ \E i \in idx : /\ out.filtered[i].round = hi
                                 /\ row.last_score = ToF(out.filtered[i].score)
               /\ row.improvement = FMinus(row.last_score, row.first_score)

(***************************************************************************)
(* Tab 8.  The expected values are counted on the computer-science records *)
(* of each round in the filtered table of the run.                         *)
(***************************************************************************)
InRound(r) ==
    Where(out.filtered, LAMBDA x : x.dept \in CseDepartments /\ x.round = r)

InRoundGrade(r, g) == {i \in InRound(r) : out.filtered[i].grade = g}

PassedIn(idx) == Cardinality({i \in idx : out.filtered[i].status = PASS})

MeanScoreIn(idx) ==
    LET scored == {i \in idx : out.filtered[i].score # NaN}
    IN FDiv(ScoreSum(out.filtered, scored), Cardinality(scored))

PassRateIn(idx) == FDiv(100 * PassedIn(idx), Cardinality(idx))

\* An administrator's run that evaluated tab 8.
ComparisonRun == out.phase = "ok" /\ "comparison" \in out.computed

OneRoundEmpty == ComparisonRun /\ ((InRound(3) = {}) # (InRound(5) = {}))

BothRounds == ComparisonRun /\ InRound(3) # {} /\ InRound(5) # {}

ShownStats(r) ==
    IF r = 3 THEN out.comparison.round3_stats ELSE out.comparison.round5_stats

ExpectedStats(r) ==
    LET sc == {out.filtered[i].score : i \in InRound(r)} \ {NaN}
    IN [applicants |-> Cardinality(InRound(r)),
        avg_score |-> MeanScoreIn(InRound(r)),
        pass_rate |-> PassRateIn(InRound(r)),
        max_score |-> IF sc = {} THEN NaN
                      ELSE CHOOSE m \in sc : \A x \in sc : x <= m,
        min_score |-> IF sc = {} THEN NaN
                      ELSE CHOOSE m \in sc : \A x \in sc : m <= x]

C20_GradeRowsAndNoFault ==
    BothRounds =>
        /\ out.raised = ""
        /\ DOMAIN out.comparison.grade_stats =
              {g \in {out.filtered[i].grade : i \in InRound(3)} :
                  InRoundGrade(5, g) # {}}
        /\ \A g \in DOMAIN out.comparison.grade_stats :
              LET row == out.comparison.grade_stats[g]
              IN /\ row.avg_score_change =
                       FMinus(MeanScoreIn(InRoundGrade(5, g)),
                              MeanScoreIn(InRoundGrade(3, g)))
                 /\ row.pass_rate_change =
                       FMinus(PassRateIn(InRoundGrade(5, g)),
                              PassRateIn(InRoundGrade(3, g)))

(***************************************************************************)
(* The level column after the load.                                        *)
(***************************************************************************)
MissingLevel(level) == level \in {NULL, Absent}

(* C19: after a successful load every record has a non-missing level: a    *)
(* record whose level is missing in the store, and every record of a table *)
(* without a level column, has the level 없음; a record with a level keeps  *)
(* it unchanged; a non-empty table always loads.                           *)
C19_LevelNeverMissing ==
    /\ store # <<>> => cache.ok
    /\ cache.ok =>
          /\ Len(cache.df) = Len(store)
          /\ \A i \in DOMAIN cache.df :
                /\ ~MissingLevel(cache.df[i].level)
                /\ cache.df[i].level =
                      IF MissingLevel(store[i].level) THEN NoLevel
                      ELSE store[i].level
          /\ (\A i \in DOMAIN store : store[i].level = Absent) =>
                \A i \in DOMAIN cache.df : cache.df[i].level = NoLevel

\* A loaded table with a record that has a level and a record that has none.
C19_Witness ==
    /\ cache.ok
    /\ \E i \in DOMAIN store : MissingLevel(store[i].level)
    /\ \E i \in DOMAIN store : store[i].level = "Lv1"
    /\ NoLevel \in out.options.levels

(***************************************************************************)
(* The write interface, the insert form, the store being down, sessions.   *)
(***************************************************************************)
(* C12: each call of insert_pcc_result, update_pcc_result and              *)
(* delete_pcc_result returns a pair (success, message) and raises nothing: *)
(* success is TRUE exactly when execute() raised no exception, and a       *)
(* failure's message carries the exception's text.                         *)
C12_SuccessIffNoException ==
    write.op # "none" =>
        /\ write.success \in BOOLEAN
        /\ write.success <=> write.error = ""
        /\ ~write.success =>
              /\ Len(write.message) = 2
              /\ write.message[2] = write.error

\* An update the store rejected.
C12_Witness ==
    /\ write.op = "update"
    /\ ~write.success
    /\ write.error = "rejected"

(* C13: when the store does not accept the administrator's insert, the     *)
(* step leaves the store, the cache entry, the two session flags and the   *)
(* filter values as they were, calls nothing again and changes the page    *)
(* only by showing the error message of the failed call.                   *)
C13_RejectedInsertChangesNothing ==
    [][(write' # write /\ ~write'.success) =>
          /\ store' = store
          /\ cached => (cached' /\ cache' = cache)
          /\ authenticated' = authenticated
          /\ is_admin' = is_admin
          /\ sel' = sel
          /\ out' = [out EXCEPT !.message = write'.message]
          /\ out'.message[2] = write'.error]_vars

\* The page of an administrator after a rejected insert.
C13_Witness ==
    /\ write.op = "insert"
    /\ ~write.success
    /\ out.message = write.message
    /\ 9 \in out.tabs

\* The written row as the load presents it.
WrittenRecord == Preprocess(write.row, TRUE)

(* C14: a successful insert from the form appends the row, drops the       *)
(* cached table and reruns, so that the step ends with the cache holding   *)
(* the table fetched from the store after the insert; from then on every   *)
(* table a run loads contains the written record.                          *)
C14_InsertInvalidatesCache ==
    /\ [][(write' # write /\ write'.success) =>
             /\ store' = Append(store, Stored(write'.row, NextId(store)))
             /\ cached'
             /\ cache' = load_data_from_supabase(store')
             /\ out' = main(cache', sel', is_admin')]_vars
    /\ []((write.op = "insert" /\ write.success /\ Load.ok) =>
             \E i \in DOMAIN Load.df : Load.df[i] = WrittenRecord)

\* The page rendered after a successful insert into a table of one row.
C14_Witness ==
    /\ write.op = "insert"
    /\ write.success
    /\ cached
    /\ Len(cache.df) = 2
    /\ cache.df[2] = WrittenRecord
    /\ out.phase # "error"

(* C15: the administrator tabs (5 to 9) are rendered only in a run of a    *)
(* session whose is_admin is TRUE, and a step changes the store or calls   *)
(* the write interface only from such a session with the form rendered.    *)
C15_WritesOnlyByAdmin ==
    /\ []((out.tabs \cap AdminTabs # {}) => is_admin)
    /\ [][(store' # store \/ write' # write) =>
             /\ is_admin
             /\ 9 \in out.tabs
             /\ is_admin']_vars

\* An administrator's insert call.
C15_Witness ==
    /\ is_admin
    /\ write.op = "insert"
    /\ AdminTabs \subseteq out.tabs

(* C16: a load that runs while the store does not answer returns no table, *)
(* the run shows the error and returns before the sidebar, the filter and  *)
(* every aggregation; and while the store stays down every later run of    *)
(* the session ends in the same error state.                               *)
C16_OutageBlocks ==
    /\ [][((Refresh \/ (~cached /\ cached')) /\ ~reachable) =>
             /\ cache' = None
             /\ out' = Blank("error", FALSE)]_vars
    /\ [][(out.phase = "error" /\ ~reachable /\ ~reachable') =>
             out'.phase = "error"]_vars
    /\ [](out.phase = "error" =>
             /\ out = Blank("error", FALSE)
             /\ sel = NoSelection)

\* A session that had a page, lost the entry and now shows the error of a
\* store that is down.
C16_Witness ==
    /\ ~reachable
    /\ store # <<>>
    /\ cached
    /\ ~cache.ok
    /\ out.phase = "error"

(***************************************************************************)
(* Two sessions.                                                           *)
(***************************************************************************)
\* The steps of this session the claim names.
SessionStep == Refresh \/ login \/ logout \/ SubmitInsert

(* C17 as stated: a refresh, login, logout or successful insert in one     *)
(* session changes neither the table another session (one that has a page) *)
(* reads on its next run nor that session's flags.                         *)
C17_OwnSnapshotPerSession ==
    [][(SessionStep /\ peer.loaded.ok) =>
          /\ Load' = Load
          /\ peer'.authenticated = peer.authenticated
          /\ peer'.is_admin = peer.is_admin]_vars

(* C17: a refresh, login, logout or insert in one session changes neither  *)
(* the other session's flags nor the page that session has rendered; the   *)
(* loaded table is one cache entry shared by the sessions, so after the    *)
(* step the other session's next run reads the table this step loaded.     *)
C17_OwnFlagsSharedCache ==
    [][SessionStep =>
          /\ peer' = peer
          /\ cached'
          /\ Load' = cache']_vars

\* The other session has a page older than the table the administrator's
\* insert left in the shared cache.
C17_Witness ==
    /\ is_admin
    /\ ~peer.is_admin
    /\ write.success
    /\ peer.loaded.ok
    /\ cache.ok
    /\ peer.loaded # cache

(***************************************************************************)
(* Tab 7: the trend.  The expected direction is computed from the pass     *)
(* rates of the last two rounds of the filtered table.                     *)
(***************************************************************************)
TrendRounds == {out.filtered[i].round : i \in DOMAIN out.filtered}

RoundRate(r) ==
    LET idx == {i \in DOMAIN out.filtered : out.filtered[i].round = r}
    IN FDiv(100 * PassedIn(idx), Cardinality(idx))

LastRound(S) == CHOOSE m \in S : \A x \in S : x <= m

ExpectedDirection ==
    IF Cardinality(TrendRounds) < 2 THEN "insufficient data"
    ELSE LET last == LastRound(TrendRounds)
             prev == LastRound(TrendRounds \ {last})
             delta == FMinus(RoundRate(last), RoundRate(prev))
         IN IF ~FLeq(delta, FInt(1)) THEN "rising"
            ELSE IF ~FLeq(FInt(0 - 1), delta) THEN "falling"
            ELSE "flat"

(* C18: the trend section reports a direction that depends on the pass     *)
(* rates of the last two rounds only: rising when the last rate exceeds    *)
(* the one before by more than 1.0, falling when it is lower by more than  *)
(* 1.0, flat otherwise, and insufficient data with fewer than two rounds.  *)
C18_TrendDirection ==
    (out.phase = "ok" /\ "round_trend" \in out.computed) =>
        out.trend_direction = ExpectedDirection

(* C21: within one session authenticated and is_admin are always equal;    *)
(* both start false; a login attempt sets both to true when its username   *)
(* and its password both equal the administrator's credentials and leaves  *)
(* both as they were otherwise; a logout is offered only while is_admin    *)
(* and sets both to false; no other step changes either flag.  (A click    *)
(* counts when the run it starts reaches the button.)                      *)
C21_FlagsAgreeAndFollowLoginLogout ==
    /\ authenticated = FALSE /\ is_admin = FALSE
    /\ [](authenticated = is_admin)
    /\ [][
          /\ \A username \in Usernames, password \in Passwords :
                loginWith(username, password) =>
                    IF /\ username = AdminUsername
                       /\ password = AdminPassword
                       /\ ReachesButtons(Load)
                    THEN authenticated' /\ is_admin'
                    ELSE UNCHANGED <<authenticated, is_admin>>
          /\ logout =>
                (is_admin /\ (ReachesButtons(Load) =>
                                 ~authenticated' /\ ~is_admin'))
          /\ ((authenticated' /\ ~authenticated) \/ (is_admin' /\ ~is_admin))
                 => loginWith(AdminUsername, AdminPassword)
          /\ ((~authenticated' /\ authenticated) \/ (~is_admin' /\ is_admin))
                 => logout
       ]_vars

\* The session is logged out again after a record was submitted from the
\* administrators' form: a login and a logout have both acted.
C21_Witness ==
    /\ ~authenticated
    /\ ~is_admin
    /\ write # NoWrite
    /\ out.phase = "ok"

\* A step in which the session's script runs.
SessionRun ==
    \/ SelectPassStatus
    \/ Refresh
    \/ login
    \/ logout
    \/ ScriptRerun
    \/ SubmitInsert

\* The session shows the error of a load that gave no table.
ErrorState == out.phase = "error"

\* The cache holds the result of a load that gave no table.
NoTableCached == cached /\ ~cache.ok

(* C22: a run whose load gives no table (no row, or the fetch raised) ends  *)
(* before the sidebar, so the page offers no refresh button, no login form *)
(* and no insert form, and the result is cached like a table; while the    *)
(* store is empty the app issues no insert; the cached no-table result is  *)
(* dropped only by expiry, the session stays in the error state while it   *)
(* is held, and the run that leaves the error state has loaded rows.       *)
C22_NoTableBlocksUntilExpiry ==
    /\ [](ErrorState => (~SidebarShown /\ out.tabs = {}))
    /\ [](store = <<>> => (ErrorState /\ write = NoWrite))
    /\ [][
          /\ SessionRun => (cached' /\ (ErrorState' <=> ~cache'.ok))
          /\ ErrorState =>
                (\/ ScriptRerun
                 \/ UNCHANGED <<out, sel, authenticated, is_admin, write>>)
          /\ store = <<>> => (~SubmitInsert /\ write' = write)
          /\ NoTableCached => (Expire \/ UNCHANGED <<cache, cached>>)
          /\ (ErrorState /\ NoTableCached) => ErrorState'
          /\ (ErrorState /\ ~ErrorState') => (cache'.ok /\ cache'.df # <<>>)
       ]_vars

\* The store answers and holds rows, yet the session shows the error: the
\* no-table result of an earlier load is still the cache entry.
C22_Witness ==
    /\ ErrorState
    /\ NoTableCached
    /\ reachable
    /\ store # <<>>

====
